---- MODULE Spec2Model ----
(***************************************************************************)
(* python-gitlab v4 objects: container registry, issues, iterations.       *)
(*                                                                         *)
(* The resource managers and the custom actions of                         *)
(*   gitlab/v4/objects/container_registry.py                               *)
(*   gitlab/v4/objects/issues.py                                           *)
(*   gitlab/v4/objects/iterations.py                                       *)
(* as a state machine: one ProjectIssue object with its manager and its    *)
(* link manager, one registry tag manager, and a record of the last call   *)
(* (its arguments, the requests it handed to the transport, the exception  *)
(* it raised and the value it returned).                                   *)
(*                                                                         *)
(* Dictionaries (kwargs, data, query_data, post_data, attributes) are      *)
(* functions from key strings to values.  A path is a sequence of          *)
(* segments: literal text, a %(name)s placeholder, or a formatted value.   *)
(***************************************************************************)
EXTENDS Integers, Sequences, FiniteSets, TLC

VARIABLES
    attrs,      \* ProjectIssue._attrs of the issue object
    manager,    \* the issue's manager (a ProjectIssueManager)
    links,      \* the issue's ProjectIssueLinkManager
    tags,       \* a ProjectRegistryTagManager of a repository
    last,       \* the last call: arguments, requests, exception, result
    sent,       \* requests handed to the transport by the custom actions
    passed,     \* custom-action calls that passed local validation
    lastOk      \* response of the last successful move (initially attrs)

vars == <<attrs, manager, links, tags, last, sent, passed, lastOk>>

----------------------------------------------------------------------------
(* Bounds of the model *)

MaxCalls == 3
MaxKw == 2

Ids == {1, 2}

----------------------------------------------------------------------------
(* Dictionaries *)

Empty == [k \in {} |-> ""]

Restrict(d, S) == [k \in (DOMAIN d) \cap S |-> d[k]]

\* dict.update: d.update(e)
DictUpdate(d, e) ==
    [k \in (DOMAIN d) \cup (DOMAIN e) |-> IF k \in DOMAIN e THEN e[k] ELSE d[k]]

\* every dictionary that carries some of the entries of d
SubDicts(d) == {Restrict(d, S) : S \in SUBSET DOMAIN d}

----------------------------------------------------------------------------
(* Paths *)

Lit(s) == [k |-> "lit", s |-> s, n |-> 0]
Ph(s)  == [k |-> "ph",  s |-> s, n |-> 0]
Val(n) == [k |-> "val", s |-> "", n |-> n]

Placeholders(path) == {path[i].s : i \in {j \in DOMAIN path : path[j].k = "ph"}}

ManagerClasses ==
    { "ProjectRegistryRepositoryManager", "ProjectRegistryTagManager",
      "IssueManager", "GroupIssueManager", "ProjectIssueManager",
      "ProjectIssueLinkManager", "GroupIterationManager" }

\* the _path attribute of each manager class
path_template(cls) ==
    CASE cls = "ProjectRegistryRepositoryManager" ->
            <<Lit("projects"), Ph("project_id"), Lit("registry"), Lit("repositories")>>
      [] cls = "ProjectRegistryTagManager" ->
            <<Lit("projects"), Ph("project_id"), Lit("registry"), Lit("repositories"),
              Ph("repository_id"), Lit("tags")>>
      [] cls = "IssueManager" -> <<Lit("issues")>>
      [] cls = "GroupIssueManager" -> <<Lit("groups"), Ph("group_id"), Lit("issues")>>
      [] cls = "ProjectIssueManager" -> <<Lit("projects"), Ph("project_id"), Lit("issues")>>
      [] cls = "ProjectIssueLinkManager" ->
            <<Lit("projects"), Ph("project_id"), Lit("issues"), Ph("issue_iid"), Lit("links")>>
      [] cls = "GroupIterationManager" -> <<Lit("groups"), Ph("group_id"), Lit("iterations")>>

\* a manager whose mapping lost the entry for the parent's own id
from_parent_attrs_unbound(cls) ==
    CASE cls = "ProjectRegistryRepositoryManager" -> [project_id |-> "id"]
      [] cls = "ProjectRegistryTagManager" -> [project_id |-> "project_id"]
      [] cls = "IssueManager" -> Empty
      [] cls = "GroupIssueManager" -> [group_id |-> "id"]
      [] cls = "ProjectIssueManager" -> [project_id |-> "id"]
      [] cls = "ProjectIssueLinkManager" -> [project_id |-> "project_id"]
      [] cls = "GroupIterationManager" -> [group_id |-> "id"]

\* the _from_parent_attrs attribute of each manager class: own name -> parent's name
from_parent_attrs(cls) ==
    CASE cls = "ProjectRegistryRepositoryManager" -> [project_id |-> "id"]
      [] cls = "ProjectRegistryTagManager" ->
            [project_id |-> "project_id", repository_id |-> "id"]
      [] cls = "IssueManager" -> Empty
      [] cls = "GroupIssueManager" -> [group_id |-> "id"]
      [] cls = "ProjectIssueManager" -> [project_id |-> "id"]
      [] cls = "ProjectIssueLinkManager" ->
            [project_id |-> "project_id", issue_iid |-> "iid"]
      [] cls = "GroupIterationManager" -> [group_id |-> "id"]

\* RESTManager path computation: the template resolved against the parent's
\* attributes; a parent attribute that is missing, or a placeholder that no
\* mapping entry binds, is an error
compute_path(cls, parent) ==
    LET fpa     == from_parent_attrs(cls)
        missing == {a \in DOMAIN fpa : fpa[a] \notin DOMAIN parent}
        data    == [a \in (DOMAIN fpa) \ missing |-> parent[fpa[a]]]
        tmpl    == path_template(cls)
        unbound == Placeholders(tmpl) \ DOMAIN fpa
    IN  IF missing # {}
        THEN [raised |-> "MissingParentAttribute", path |-> <<>>, parent_attrs |-> Empty]
        ELSE IF unbound # {}
        THEN [raised |-> "UnboundPlaceholder", path |-> <<>>, parent_attrs |-> Empty]
        ELSE [raised |-> "none",
              path |-> [i \in DOMAIN tmpl |->
                          IF tmpl[i].k = "ph" THEN Val(data[tmpl[i].s]) ELSE tmpl[i]],
              parent_attrs |-> data]

----------------------------------------------------------------------------
(* Transport and error mapping *)

StatusCodes == {200, 401, 404}

\* one HTTP round trip: what the transport raises for the server's status
http_request(response) ==
    IF response.status \in 200..299 THEN "none"
    ELSE IF response.status = 401 THEN "GitlabAuthenticationError"
    ELSE "GitlabHttpError"

\* the on_http_error(error) decorator
on_http_error(error, raised) ==
    IF raised = "GitlabHttpError" THEN error ELSE raised

Request(verb, path, query_data, post_data, kwargs) ==
    [verb |-> verb, path |-> path, query_data |-> query_data,
     post_data |-> post_data, kwargs |-> kwargs]

None == [none |-> TRUE]

----------------------------------------------------------------------------
(* ProjectRegistryTagManager.delete_in_bulk *)

\* every keyword of the caller goes into the query data
delete_in_bulk_unfiltered(self, args, response) ==
    LET name_regex == IF "name_regex" \in DOMAIN args THEN args["name_regex"] ELSE ".*"
        kwargs     == Restrict(args, (DOMAIN args) \ {"name_regex"})
        data       == DictUpdate([name_regex |-> name_regex], kwargs)
        raised     == on_http_error("GitlabDeleteError", http_request(response))
    IN  [requests |-> <<Request("delete", self.path, data, Empty, kwargs)>>,
         raised |-> raised, ret |-> None]

\* args are the caller's keyword arguments; name_regex binds to the parameter
\* of that name (default ".*"), the others are **kwargs
delete_in_bulk(self, args, response) ==
    LET name_regex  == IF "name_regex" \in DOMAIN args THEN args["name_regex"] ELSE ".*"
        kwargs      == Restrict(args, (DOMAIN args) \ {"name_regex"})
        valid_attrs == {"keep_n", "name_regex_keep", "older_than"}
        data        == DictUpdate([name_regex |-> name_regex], Restrict(kwargs, valid_attrs))
        raised      == on_http_error("GitlabDeleteError", http_request(response))
    IN  [requests |-> <<Request("delete", self.path, data, Empty, kwargs)>>,
         raised |-> raised, ret |-> None]

----------------------------------------------------------------------------
(* ProjectIssue *)

IssueAttrs == [iid : Ids, project_id : Ids]

\* RESTObject.get_id with _id_attr = "iid"
get_id(self_attrs) == self_attrs.iid

\* RESTObject._update_attrs: the attributes become the server's data
update_attrs(self_attrs, server_data) == server_data

\* the path is built without the issue's iid
move_no_iid(self_attrs, mgr, to_project_id, kwargs, response) ==
    LET path   == mgr.path \o <<Lit("move")>>
        data   == [to_project_id |-> to_project_id]
        raised == on_http_error("GitlabUpdateError", http_request(response))
    IN  [requests |-> <<Request("post", path, Empty, data, kwargs)>>,
         raised |-> raised, ret |-> None,
         attrs |-> IF raised = "none" THEN update_attrs(self_attrs, response.body)
                   ELSE self_attrs]

\* the attributes are updated before the request is sent
move_optimistic(self_attrs, mgr, to_project_id, kwargs, response) ==
    LET path   == mgr.path \o <<Val(get_id(self_attrs)), Lit("move")>>
        data   == [to_project_id |-> to_project_id]
        raised == on_http_error("GitlabUpdateError", http_request(response))
    IN  [requests |-> <<Request("post", path, Empty, data, kwargs)>>,
         raised |-> raised, ret |-> None,
         attrs |-> IF raised = "none" THEN update_attrs(self_attrs, response.body)
                   ELSE [self_attrs EXCEPT !.project_id = to_project_id]]

move(self_attrs, mgr, to_project_id, kwargs, response) ==
    LET path   == mgr.path \o <<Val(get_id(self_attrs)), Lit("move")>>
        data   == [to_project_id |-> to_project_id]
        raised == on_http_error("GitlabUpdateError", http_request(response))
    IN  [requests |-> <<Request("post", path, Empty, data, kwargs)>>,
         raised |-> raised, ret |-> None,
         attrs |-> IF raised = "none" THEN update_attrs(self_attrs, response.body)
                   ELSE self_attrs]

\* a second request is sent when the first one fails
related_merge_requests_retry(self_attrs, mgr, kwargs, response) ==
    LET path   == mgr.path \o <<Val(get_id(self_attrs)), Lit("related_merge_requests")>>
        raised == on_http_error("GitlabGetError", http_request(response))
        req    == Request("get", path, Empty, Empty, kwargs)
    IN  [requests |-> IF raised = "none" THEN <<req>> ELSE <<req, req>>,
         raised |-> raised,
         ret |-> IF raised = "none" THEN response.body ELSE None]

related_merge_requests(self_attrs, mgr, kwargs, response) ==
    LET path   == mgr.path \o <<Val(get_id(self_attrs)), Lit("related_merge_requests")>>
        raised == on_http_error("GitlabGetError", http_request(response))
    IN  [requests |-> <<Request("get", path, Empty, Empty, kwargs)>>,
         raised |-> raised,
         ret |-> IF raised = "none" THEN response.body ELSE None]

\* decorated with the error class of another operation
closed_by_update_error(self_attrs, mgr, kwargs, response) ==
    LET path   == mgr.path \o <<Val(get_id(self_attrs)), Lit("closed_by")>>
        raised == on_http_error("GitlabUpdateError", http_request(response))
    IN  [requests |-> <<Request("get", path, Empty, Empty, kwargs)>>,
         raised |-> raised,
         ret |-> IF raised = "none" THEN response.body ELSE None]

closed_by(self_attrs, mgr, kwargs, response) ==
    LET path   == mgr.path \o <<Val(get_id(self_attrs)), Lit("closed_by")>>
        raised == on_http_error("GitlabGetError", http_request(response))
    IN  [requests |-> <<Request("get", path, Empty, Empty, kwargs)>>,
         raised |-> raised,
         ret |-> IF raised = "none" THEN response.body ELSE None]

----------------------------------------------------------------------------
(* Create: ProjectIssueManager and ProjectIssueLinkManager *)

\* the _create_attrs attribute (RequiredOptional) of each manager class
create_attrs(cls) ==
    CASE cls = "ProjectIssueManager" ->
            [required |-> {"title"},
             optional |-> {"description", "confidential", "assignee_ids", "assignee_id",
                           "milestone_id", "labels", "created_at", "due_date",
                           "merge_request_to_resolve_discussions_of",
                           "discussion_to_resolve"}]
      [] cls = "ProjectIssueLinkManager" ->
            [required |-> {"target_project_id", "target_issue_iid"}, optional |-> {}]

\* the required create attributes that data lacks
check_missing_create_attrs(cls, data) == create_attrs(cls).required \ DOMAIN data

\* a resource object: its manager and its attributes
RESTObject(cls, mgr, server_data) == [cls |-> cls, manager |-> mgr, attrs |-> server_data]

\* the generic create of the create mixin: validate, keep the declared
\* attributes, send one POST, wrap the response
create(cls, self, data, kwargs, response) ==
    LET missing == check_missing_create_attrs(cls, data)
        allowed == create_attrs(cls).required \cup create_attrs(cls).optional
        raised  == on_http_error("GitlabCreateError", http_request(response))
    IN  IF missing # {}
        THEN [requests |-> <<>>, raised |-> "RequiredFieldError", ret |-> None]
        ELSE [requests |-> <<Request("post", self.path, Empty,
                                     Restrict(data, allowed), kwargs)>>,
              raised |-> raised,
              ret |-> IF raised = "none"
                      THEN RESTObject("ProjectIssue", self, response.body) ELSE None]

\* the request is sent before the data is validated
ProjectIssueLinkManager_create_post_first(self, parent_manager, data, kwargs, response) ==
    LET missing == check_missing_create_attrs("ProjectIssueLinkManager", data)
        raised  == on_http_error("GitlabCreateError", http_request(response))
    IN  [requests |-> <<Request("post", self.path, Empty, data, kwargs)>>,
         raised |-> IF raised # "none" THEN raised
                    ELSE IF missing # {} THEN "RequiredFieldError" ELSE "none",
         ret |-> IF raised = "none" /\ missing = {}
                 THEN <<RESTObject("ProjectIssue", parent_manager, response.body.source_issue),
                        RESTObject("ProjectIssue", parent_manager, response.body.target_issue)>>
                 ELSE None]

\* only the declared attributes are sent
ProjectIssueLinkManager_create_filtered(self, parent_manager, data, kwargs, response) ==
    LET missing == check_missing_create_attrs("ProjectIssueLinkManager", data)
        allowed == create_attrs("ProjectIssueLinkManager").required
        raised  == on_http_error("GitlabCreateError", http_request(response))
    IN  IF missing # {}
        THEN [requests |-> <<>>, raised |-> "RequiredFieldError", ret |-> None]
        ELSE [requests |-> <<Request("post", self.path, Empty, Restrict(data, allowed), kwargs)>>,
              raised |-> raised,
              ret |-> IF raised = "none"
                      THEN <<RESTObject("ProjectIssue", parent_manager, response.body.source_issue),
                             RESTObject("ProjectIssue", parent_manager, response.body.target_issue)>>
                      ELSE None]

\* the two issues are returned in the other order
ProjectIssueLinkManager_create_swapped(self, parent_manager, data, kwargs, response) ==
    LET missing == check_missing_create_attrs("ProjectIssueLinkManager", data)
        raised  == on_http_error("GitlabCreateError", http_request(response))
    IN  IF missing # {}
        THEN [requests |-> <<>>, raised |-> "RequiredFieldError", ret |-> None]
        ELSE [requests |-> <<Request("post", self.path, Empty, data, kwargs)>>,
              raised |-> raised,
              ret |-> IF raised = "none"
                      THEN <<RESTObject("ProjectIssue", parent_manager, response.body.target_issue),
                             RESTObject("ProjectIssue", parent_manager, response.body.source_issue)>>
                      ELSE None]

\* ProjectIssueLinkManager.create; parent_manager is self._parent.manager
ProjectIssueLinkManager_create(self, parent_manager, data, kwargs, response) ==
    LET missing == check_missing_create_attrs("ProjectIssueLinkManager", data)
        raised  == on_http_error("GitlabCreateError", http_request(response))
    IN  IF missing # {}
        THEN [requests |-> <<>>, raised |-> "RequiredFieldError", ret |-> None]
        ELSE [requests |-> <<Request("post", self.path, Empty, data, kwargs)>>,
              raised |-> raised,
              ret |-> IF raised = "none"
                      THEN <<RESTObject("ProjectIssue", parent_manager, response.body.source_issue),
                             RESTObject("ProjectIssue", parent_manager, response.body.target_issue)>>
                      ELSE None]

----------------------------------------------------------------------------
(* List *)

ListClasses ==
    {"IssueManager", "GroupIssueManager", "ProjectIssueManager", "GroupIterationManager"}

\* the group manager's list copied from IssueManager, "scope" included
list_filters_copied(cls) ==
    CASE cls = "GroupIterationManager" ->
            {"state", "iids", "search", "created_after", "created_before",
             "updated_after", "updated_before"}
      [] OTHER ->
            {"state", "labels", "milestone", "scope", "author_id", "assignee_id",
             "my_reaction_emoji", "iids", "order_by", "sort", "search",
             "created_after", "created_before", "updated_after", "updated_before"}

\* the _list_filters attribute of each manager class
list_filters(cls) ==
    CASE cls = "IssueManager" ->
            {"state", "labels", "milestone", "scope", "author_id", "assignee_id",
             "my_reaction_emoji", "iids", "order_by", "sort", "search",
             "created_after", "created_before", "updated_after", "updated_before"}
      [] cls = "GroupIssueManager" ->
            {"state", "labels", "milestone", "order_by", "sort", "iids", "author_id",
             "assignee_id", "my_reaction_emoji", "search",
             "created_after", "created_before", "updated_after", "updated_before"}
      [] cls = "ProjectIssueManager" ->
            {"iids", "state", "labels", "milestone", "scope", "author_id", "assignee_id",
             "my_reaction_emoji", "order_by", "sort", "search",
             "created_after", "created_before", "updated_after", "updated_before"}
      [] cls = "GroupIterationManager" ->
            {"state", "iids", "search", "created_after", "created_before",
             "updated_after", "updated_before"}

\* the generic list of the list mixin: the filters of the allow-list become
\* the query of one GET
list(cls, self, kwargs, response) ==
    LET query  == Restrict(kwargs, list_filters(cls))
        raised == on_http_error("GitlabListError", http_request(response))
    IN  [requests |-> <<Request("get", self.path, query, Empty, Empty)>>,
         raised |-> raised,
         ret |-> IF raised = "none" THEN response.body ELSE None]

----------------------------------------------------------------------------
(* Inputs *)

SudoKwargs == {Empty, [sudo |-> "root"]}

BulkArgs ==
    SubDicts([name_regex |-> "v1.*", keep_n |-> "5", name_regex_keep |-> "stable",
              older_than |-> "1d", sudo |-> "root"])

LinkData ==
    SubDicts([target_project_id |-> 2, target_issue_iid |-> 1, link_type |-> "blocks"])

\* the server's answer to a link creation: the two linked issues
LinkBodies ==
    {[source_issue |-> s, target_issue |-> t] :
        s \in {a \in IssueAttrs : a.project_id = 1},
        t \in {a \in IssueAttrs : a.project_id = 2 /\ a.iid = 1}}

IssueData ==
    SubDicts([title |-> "bug", description |-> "d", labels |-> "l", weight |-> "3"])

MergeRequestLists == {<<>>, <<[iid |-> 1]>>}

ListKeysTried ==
    {"state", "labels", "scope", "search", "weight", "confidential"}

ListKwargs ==
    {[k \in S |-> "v"] : S \in {T \in SUBSET ListKeysTried : Cardinality(T) <= MaxKw}}

ParentAttrNames == {"id", "project_id", "iid"}

Parents == UNION {[S -> Ids] : S \in SUBSET ParentAttrNames}

ErrorBody == [message |-> "error"]

\* a server answer: a success with one of the bodies, or a failure
Responses(bodies) ==
    {[status |-> 200, body |-> b] : b \in bodies}
    \cup {[status |-> s, body |-> ErrorBody] : s \in StatusCodes \ {200}}

----------------------------------------------------------------------------
(* State machine *)

NoCall ==
    [op |-> "none", cls |-> "none", args |-> Empty, kwargs |-> Empty, before |-> Empty,
     status |-> 0, body |-> Empty, requests |-> <<>>, raised |-> "none", ret |-> None]

\* issue 1 of project 1, fetched through the project's issue manager, and the
\* tag manager of repository 2 of that project
InitialIssue == [iid |-> 1, project_id |-> 1]

Init ==
    /\ attrs = InitialIssue
    /\ manager = compute_path("ProjectIssueManager", [id |-> InitialIssue.project_id])
    /\ links = compute_path("ProjectIssueLinkManager", InitialIssue)
    /\ tags = compute_path("ProjectRegistryTagManager",
                           [id |-> 2, project_id |-> InitialIssue.project_id])
    /\ last = NoCall
    /\ sent = 0
    /\ passed = 0
    /\ lastOk = InitialIssue

DeleteInBulk ==
    \E args \in BulkArgs, response \in Responses({Empty}) :
        LET r == delete_in_bulk(tags, args, response) IN
        /\ passed < MaxCalls
        /\ last' = [NoCall EXCEPT !.op = "delete_in_bulk",
                                  !.cls = "ProjectRegistryTagManager", !.args = args,
                                  !.status = response.status, !.body = response.body,
                                  !.requests = r.requests, !.raised = r.raised,
                                  !.ret = r.ret]
        /\ sent' = sent + Len(r.requests)
        /\ passed' = passed + 1
        /\ UNCHANGED <<attrs, manager, links, tags, lastOk>>

Move ==
    \E to_project_id \in Ids, kwargs \in SudoKwargs, response \in Responses(IssueAttrs) :
        LET r == move(attrs, manager, to_project_id, kwargs, response) IN
        /\ passed < MaxCalls
        /\ last' = [NoCall EXCEPT !.op = "move", !.cls = "ProjectIssue",
                                  !.args = [to_project_id |-> to_project_id],
                                  !.kwargs = kwargs, !.before = attrs,
                                  !.status = response.status, !.body = response.body,
                                  !.requests = r.requests, !.raised = r.raised,
                                  !.ret = r.ret]
        /\ attrs' = r.attrs
        /\ lastOk' = IF response.status \in 200..299 THEN response.body ELSE lastOk
        /\ sent' = sent + Len(r.requests)
        /\ passed' = passed + 1
        /\ UNCHANGED <<manager, links, tags>>

RelatedMergeRequests ==
    \E kwargs \in SudoKwargs, response \in Responses(MergeRequestLists) :
        LET r == related_merge_requests(attrs, manager, kwargs, response) IN
        /\ passed < MaxCalls
        /\ last' = [NoCall EXCEPT !.op = "related_merge_requests", !.cls = "ProjectIssue",
                                  !.kwargs = kwargs, !.before = attrs,
                                  !.status = response.status, !.body = response.body,
                                  !.requests = r.requests, !.raised = r.raised,
                                  !.ret = r.ret]
        /\ sent' = sent + Len(r.requests)
        /\ passed' = passed + 1
        /\ UNCHANGED <<attrs, manager, links, tags, lastOk>>

ClosedBy ==
    \E kwargs \in SudoKwargs, response \in Responses(MergeRequestLists) :
        LET r == closed_by(attrs, manager, kwargs, response) IN
        /\ passed < MaxCalls
        /\ last' = [NoCall EXCEPT !.op = "closed_by", !.cls = "ProjectIssue",
                                  !.kwargs = kwargs, !.before = attrs,
                                  !.status = response.status, !.body = response.body,
                                  !.requests = r.requests, !.raised = r.raised,
                                  !.ret = r.ret]
        /\ sent' = sent + Len(r.requests)
        /\ passed' = passed + 1
        /\ UNCHANGED <<attrs, manager, links, tags, lastOk>>

\* issue.links.create(data): a call that lacks a required key is rejected
\* locally and counts as not validated
LinkCreate ==
    \E data \in LinkData, kwargs \in SudoKwargs, response \in Responses(LinkBodies) :
        LET r  == ProjectIssueLinkManager_create(links, manager, data, kwargs, response)
            ok == {"target_project_id", "target_issue_iid"} \subseteq DOMAIN data
        IN
        /\ passed < MaxCalls
        /\ last' = [NoCall EXCEPT !.op = "link_create", !.cls = "ProjectIssueLinkManager",
                                  !.args = data, !.kwargs = kwargs, !.before = attrs,
                                  !.status = response.status, !.body = response.body,
                                  !.requests = r.requests, !.raised = r.raised,
                                  !.ret = r.ret]
        /\ sent' = sent + Len(r.requests)
        /\ passed' = IF ok THEN passed + 1 ELSE passed
        /\ UNCHANGED <<attrs, manager, links, tags, lastOk>>

\* project.issues.create(data)
IssueCreate ==
    \E data \in IssueData, response \in Responses({[iid |-> 2, project_id |-> 1]}) :
        LET kwargs == Empty
            r      == create("ProjectIssueManager", manager, data, kwargs, response)
        IN
        /\ last' = [NoCall EXCEPT !.op = "issue_create", !.cls = "ProjectIssueManager",
                                  !.args = data, !.kwargs = kwargs,
                                  !.status = response.status, !.body = response.body,
                                  !.requests = r.requests, !.raised = r.raised,
                                  !.ret = r.ret]
        /\ UNCHANGED <<attrs, manager, links, tags, sent, passed, lastOk>>

\* manager.list(**kwargs) on one of the managers that list
List ==
    \E cls \in ListClasses, kwargs \in ListKwargs, response \in Responses({<<>>}) :
        LET self == compute_path(cls, [id |-> manager.parent_attrs.project_id])
            r    == list(cls, self, kwargs, response)
        IN
        /\ last' = [NoCall EXCEPT !.op = "list", !.cls = cls, !.kwargs = kwargs,
                                  !.status = response.status, !.body = response.body,
                                  !.requests = r.requests, !.raised = r.raised,
                                  !.ret = r.ret]
        /\ UNCHANGED <<attrs, manager, links, tags, sent, passed, lastOk>>

\* a manager of class cls constructed from a parent object
NewManager ==
    \E cls \in ManagerClasses, parent \in Parents :
        LET r == compute_path(cls, parent) IN
        /\ last' = [NoCall EXCEPT !.op = "new_manager", !.cls = cls, !.args = parent,
                                  !.raised = r.raised, !.ret = r]
        /\ UNCHANGED <<attrs, manager, links, tags, sent, passed, lastOk>>

Next ==
    \/ DeleteInBulk
    \/ Move
    \/ RelatedMergeRequests
    \/ ClosedBy
    \/ LinkCreate
    \/ IssueCreate

Spec == Init /\ [][Next]_vars

NextList == List

SpecList == Init /\ [][NextList]_vars

NextPath == NewManager

SpecPath == Init /\ [][NextPath]_vars

----------------------------------------------------------------------------
(* Properties *)

IsSuccess(status) == status \in 200..299

CustomActions ==
    {"delete_in_bulk", "move", "related_merge_requests", "closed_by", "link_create"}

BulkOptional == {"keep_n", "older_than", "name_regex_keep"}

LinkRequired == {"target_project_id", "target_issue_iid"}

\* C1: the query data of the DELETE request of delete_in_bulk is name_regex
\* (".*" when the caller gives none) plus exactly those of keep_n, older_than
\* and name_regex_keep that the caller supplied, with the caller's values; no
\* other keyword of the caller (sudo) and no unsupplied field is in it.
C1_BulkQueryData ==
    last.op = "delete_in_bulk" =>
        /\ Len(last.requests) = 1
        /\ last.requests[1].verb = "delete"
        /\ last.requests[1].path = tags.path
        /\ LET q        == last.requests[1].query_data
               supplied == (DOMAIN last.args) \cap BulkOptional
           IN  /\ DOMAIN q = {"name_regex"} \cup supplied
               /\ q["name_regex"] = IF "name_regex" \in DOMAIN last.args
                                    THEN last.args["name_regex"] ELSE ".*"
               /\ \A k \in supplied : q[k] = last.args[k]
               /\ "sudo" \notin DOMAIN q

C1_Witness ==
    /\ last.op = "delete_in_bulk"
    /\ DOMAIN last.args = {"keep_n", "sudo"}
    /\ last.requests[1].query_data = [name_regex |-> ".*", keep_n |-> "5"]

\* C2: a create call that lacks a required field (target_project_id or
\* target_issue_iid for the issue link manager, title for the project issue
\* manager) ends in a required-field error and issues no request.
C2_MissingRequiredRejected ==
    /\ (last.op = "link_create" /\ ~(LinkRequired \subseteq DOMAIN last.args)) =>
            (last.raised = "RequiredFieldError" /\ last.requests = <<>>)
    /\ (last.op = "issue_create" /\ "title" \notin DOMAIN last.args) =>
            (last.raised = "RequiredFieldError" /\ last.requests = <<>>)

C2_Witness ==
    /\ last.op = "link_create"
    /\ DOMAIN last.args = {"target_project_id", "link_type"}
    /\ last.raised = "RequiredFieldError"
    /\ last.requests = <<>>

\* C3 as stated: the body of every create request holds only keys of the
\* manager's declared required or optional create attributes.
C3_BodyOnlyDeclaredKeys ==
    (last.op \in {"link_create", "issue_create"} /\ last.requests # <<>>) =>
        DOMAIN last.requests[1].post_data
            \subseteq (create_attrs(last.cls).required \cup create_attrs(last.cls).optional)

\* C3 amended: the body of the request that ProjectIssueLinkManager.create
\* sends is the caller's data unchanged: both required keys and every extra
\* key the caller's data carries, with the caller's values.
C3_LinkBodyIsCallersData ==
    (last.op = "link_create" /\ LinkRequired \subseteq DOMAIN last.args) =>
        /\ Len(last.requests) = 1
        /\ last.requests[1].verb = "post"
        /\ last.requests[1].post_data = last.args
        /\ LinkRequired \subseteq DOMAIN last.requests[1].post_data

C3_Witness ==
    /\ last.op = "link_create"
    /\ last.requests # <<>>
    /\ "link_type" \in DOMAIN last.requests[1].post_data
    /\ last.requests[1].post_data["link_type"] = "blocks"

\* C4: ProjectIssue.move(to_project_id) issues one POST to
\* <manager path>/<issue iid>/move with body {to_project_id: the given id};
\* when the server answers with success the object's attributes are the
\* returned server data.
C4_MoveRequestAndUpdate ==
    last.op = "move" =>
        /\ Len(last.requests) = 1
        /\ last.requests[1].verb = "post"
        /\ last.requests[1].path = manager.path \o <<Val(last.before.iid), Lit("move")>>
        /\ last.requests[1].post_data = [to_project_id |-> last.args.to_project_id]
        /\ last.requests[1].query_data = Empty
        /\ IsSuccess(last.status) => attrs = last.body

C4_Witness ==
    /\ last.op = "move"
    /\ last.args.to_project_id = 2
    /\ last.status = 200
    /\ last.before = [iid |-> 1, project_id |-> 1]
    /\ attrs = [iid |-> 2, project_id |-> 2]
    /\ last.requests[1].path =
          <<Lit("projects"), Val(1), Lit("issues"), Val(1), Lit("move")>>

\* C5: over any sequence of calls of the custom actions, the number of
\* requests sent equals the number of calls that passed local validation,
\* whatever the server answered; a validated call sends exactly one request.
C5_OneRequestPerCall ==
    /\ sent = passed
    /\ last.op \in CustomActions =>
          Len(last.requests) =
              IF last.op = "link_create" /\ ~(LinkRequired \subseteq DOMAIN last.args)
              THEN 0 ELSE 1

C5_Witness ==
    /\ passed = 2
    /\ sent = 2
    /\ last.op = "related_merge_requests"
    /\ last.status = 404

\* C6: every placeholder of a manager's path template is bound by its
\* parent-attribute mapping: against a parent carrying all mapped attributes
\* the path has no unresolved placeholder and carries the parent's values; a
\* parent lacking a mapped attribute gives an error.
C6_PathResolves ==
    last.op = "new_manager" =>
        LET fpa    == from_parent_attrs(last.cls)
            tmpl   == path_template(last.cls)
            parent == last.args
            have   == \A a \in DOMAIN fpa : fpa[a] \in DOMAIN parent
        IN  /\ have =>
                  /\ last.raised = "none"
                  /\ Placeholders(last.ret.path) = {}
                  /\ Len(last.ret.path) = Len(tmpl)
                  /\ \A i \in DOMAIN tmpl :
                        last.ret.path[i] =
                            IF tmpl[i].k = "ph" THEN Val(parent[fpa[tmpl[i].s]]) ELSE tmpl[i]
            /\ ~have => last.raised # "none"
            /\ (last.cls = "ProjectRegistryRepositoryManager" /\ "id" \notin DOMAIN parent)
                  => last.raised # "none"
            /\ (last.cls = "ProjectIssueLinkManager" /\ "iid" \notin DOMAIN parent)
                  => last.raised # "none"
            /\ (last.cls = "ProjectRegistryTagManager" /\ "project_id" \notin DOMAIN parent)
                  => last.raised # "none"

C6_Witness ==
    /\ last.op = "new_manager"
    /\ last.cls = "ProjectRegistryTagManager"
    /\ last.args = [id |-> 2, project_id |-> 1]
    /\ last.raised = "none"
    /\ last.ret.path = <<Lit("projects"), Val(1), Lit("registry"), Lit("repositories"),
                         Val(2), Lit("tags")>>

\* C7: after a non-success status the caller gets the error of the operation
\* called: a delete error from delete_in_bulk, an update error from move, a
\* get error from related_merge_requests and closed_by, a create error from
\* the link manager's create; an authentication failure gives an
\* authentication error for each; none returns normally.
C7_ErrorKindPerOperation ==
    (last.op \in CustomActions /\ last.requests # <<>> /\ ~IsSuccess(last.status)) =>
        /\ last.raised # "none"
        /\ last.ret = None
        /\ last.status = 401 => last.raised = "GitlabAuthenticationError"
        /\ last.status # 401 =>
              last.raised =
                  CASE last.op = "delete_in_bulk" -> "GitlabDeleteError"
                    [] last.op = "move" -> "GitlabUpdateError"
                    [] last.op = "related_merge_requests" -> "GitlabGetError"
                    [] last.op = "closed_by" -> "GitlabGetError"
                    [] last.op = "link_create" -> "GitlabCreateError"

C7_Witness ==
    /\ last.op = "closed_by"
    /\ last.status = 404
    /\ last.raised = "GitlabGetError"

\* C8: in a list call a filter keyword outside the manager's _list_filters is
\* not in the query of the request, and every supplied filter of the
\* allow-list is, with its value.
C8_ListFiltersAllowList ==
    last.op = "list" =>
        /\ Len(last.requests) = 1
        /\ LET q == last.requests[1].query_data
           IN  /\ \A k \in DOMAIN last.kwargs :
                     IF k \in list_filters(last.cls)
                     THEN k \in DOMAIN q /\ q[k] = last.kwargs[k]
                     ELSE k \notin DOMAIN q
               /\ DOMAIN q \subseteq DOMAIN last.kwargs
               /\ "weight" \notin DOMAIN q
               /\ last.cls = "GroupIssueManager" => "scope" \notin DOMAIN q
               /\ last.cls = "GroupIterationManager" => "labels" \notin DOMAIN q

C8_Witness ==
    /\ last.op = "list"
    /\ last.cls = "GroupIssueManager"
    /\ DOMAIN last.kwargs = {"scope", "state"}
    /\ last.requests[1].query_data = [state |-> "v"]

\* C9: a move whose POST fails leaves the issue's attributes as they were;
\* after any sequence of moves the attributes are the response of the last
\* successful move, or the initial attributes when none succeeded.
C9_FailedMoveKeepsAttrs ==
    /\ (last.op = "move" /\ ~IsSuccess(last.status)) => attrs = last.before
    /\ attrs = lastOk

C9_Witness ==
    /\ last.op = "move"
    /\ last.status = 404
    /\ last.raised = "GitlabUpdateError"
    /\ attrs = [iid |-> 2, project_id |-> 2]
    /\ attrs = last.before

\* C10: a successful ProjectIssueLinkManager.create returns the pair (source
\* issue, target issue), built from the response's source_issue and
\* target_issue entries and bound to the parent issue's manager; the parent
\* issue's attributes and the link manager's path bindings are unchanged.
C10_LinkCreateReturnsPair ==
    (last.op = "link_create" /\ last.raised = "none") =>
        /\ last.ret = << [cls |-> "ProjectIssue", manager |-> manager,
                          attrs |-> last.body.source_issue],
                         [cls |-> "ProjectIssue", manager |-> manager,
                          attrs |-> last.body.target_issue] >>
        /\ attrs = last.before
        /\ links = compute_path("ProjectIssueLinkManager", InitialIssue)

C10_Witness ==
    /\ last.op = "link_create"
    /\ last.raised = "none"
    /\ last.status = 200
    /\ last.ret[1].attrs = [iid |-> 2, project_id |-> 1]
    /\ last.ret[2].attrs = [iid |-> 1, project_id |-> 2]
    /\ attrs = [iid |-> 2, project_id |-> 2]

====
